---- MODULE Spec2Model ----
(***************************************************************************)
(* State-machine model of the cf4ocl profiler (src/src/lib/profiler.c):    *)
(* the queue registry, the ingest pass, the aggregator and the overlap     *)
(* sweep of cl4_prof_calc, over a bounded set of command queues and        *)
(* events.                                                                 *)
(*                                                                         *)
(* Strings are tuples of character codes, so that g_str_equal / g_strcmp0  *)
(* are computed on contents while pointers to strings are separate         *)
(* values.  A GList is a sequence whose first element is the list head.    *)
(* A GHashTable is a function (or, for the queue table, whose key          *)
(* comparison is not by content, a set of key/value entries).              *)
(***************************************************************************)
EXTENDS Integers, Sequences, FiniteSets, TLC

(***************************************************************************)
(* Bounds of the model.                                                    *)
(***************************************************************************)
\* Device timestamps of the exhaustively enumerated events lie in 0..MaxT.
MaxT == 3
\* Longest event sequence of the exhaustively enumerated queue.
MaxEvents == 2
\* Most calls of cl4_prof_start made on the profile.
MaxStarts == 2

\* A cl_ulong has 64 bits, more than an integer of the model checker holds.
\* The model holds the cl_ulong v as the integer v while v < 2^63 and as
\* v - 2^64 from there on (the same 64 bits read as two's complement): the
\* integer -k stands for the cl_ulong 2^64 - k.  On these integers the sum
\* and the difference modulo 2^64 are the plain sum and difference, and
\* nothing wraps before 2^64; the unsigned order is ULess; fmt_lu gives the
\* decimal digits of the cl_ulong meant.
CL_ULONG_MAX == -1

\* cl_ulong addition and subtraction (wrap around at 2^64).
UAdd(a, b) == a + b
USub(a, b) == a - b

\* x < y on cl_ulong values.
ULess(x, y) == IF (x < 0) = (y < 0) THEN x < y ELSE y < 0

(***************************************************************************)
(* The environment: strings, queue wrappers, completed events.             *)
(***************************************************************************)
\* Event names (contents).
NameA == <<97>>
NameB == <<98>>
NameC == <<99>>
NameK == <<107>>

\* Queue-name buffers handed to cl4_prof_add_queue: three pointers, two of
\* which hold the same characters "q0".
QNamePtrs == {"p1", "p2", "p3"}
StrAt(p) == IF p = "p3" THEN <<113, 49>> ELSE <<113, 48>>

\* Command-queue wrappers; "NULL" is the null pointer.
CQs == {"cq1", "cq2"}

\* A completed event of a queue: its final name and the four device
\* timestamps its profiling-info queries return.
Ev(n, s, e) ==
    [name |-> n, t_queued |-> s, t_submit |-> s, t_start |-> s, t_end |-> e]

\* The outcome of the profiling-info queries of one event: all succeed, or
\* the named query is the first to fail.
QueryOutcomes == {"none", "START", "END", "QUEUED", "SUBMIT"}

EmptyTable == [x \in {} |-> 0]

Min2(a, b) == IF a <= b THEN a ELSE b
Max2(a, b) == IF a > b THEN a ELSE b

VARIABLES
    qevents,               \* queue wrapper -> its events, in arrival order
    cqueues,               \* prof->cqueues: set of [key, value] entries
    refcnt,                \* reference count of each queue wrapper
    destroyed,             \* the queue wrappers whose count reached 0: freed
    nonnull,               \* the pointer fields of the profile that are not NULL
    event_names,           \* prof->event_names: name -> name id
    event_name_ids,        \* prof->event_name_ids: name id -> name
    event_instants,        \* prof->event_instants (GList)
    num_events,            \* prof->num_events
    events,                \* prof->events (GList)
    aggregate,             \* prof->aggregate: name -> aggregate entry
    overmat,               \* prof->overmat: index -> overlap
    total_events_time,     \* prof->total_events_time
    total_events_eff_time, \* prof->total_events_eff_time
    start_time,            \* prof->start_time
    total_overlap,         \* total_overlap of the last cl4_prof_calc_overmat
    pc,                    \* position of cl4_prof_calc
    iter_todo,             \* queue-table entries the ingest has yet to visit
    iter_cur,              \* the entry being iterated (a set of at most one)
    iter_pos,              \* events of the current queue already handed out
    ingest_log,            \* the events handed to cl4_prof_add_event, in order
    last                   \* the last API call, its arguments and its return

prof_vars ==
    <<cqueues, refcnt, nonnull, event_names, event_name_ids, event_instants,
      num_events, events, aggregate, overmat, total_events_time,
      total_events_eff_time, start_time, total_overlap>>
iter_vars == <<iter_todo, iter_cur, iter_pos>>

VARIABLES
    export_options,        \* the static export_options record
    stream,                \* what the last export wrote to its stream
    export_err,            \* the GError the last export call returned
    write_failed,          \* which fprintf of the last export failed (0: none)
    fp,                    \* the file handle of the last cl4_prof_export_info_file
    timers,                \* the GTimer objects allocated and not destroyed
    printed,               \* the g_print calls of the last cl4_prof_print_info
    ret_eventagg,          \* the name and result of the last cl4_prof_get_eventagg
    lock_owner,            \* the thread holding G_LOCK(export_options), or "free"
    thr_pc,                \* position of each thread calling set/get_export_opts
    thr_arg,               \* the export_opts argument of each setter thread
    thr_copied,            \* the words of the struct each thread has copied
    get_ret                \* the record cl4_prof_get_export_opts returns

thr_vars == <<lock_owner, thr_pc, thr_arg, thr_copied, get_ret>>
report_vars == <<printed, ret_eventagg>>
io_vars == <<export_options, stream, export_err, write_failed, fp, timers, report_vars,
             thr_vars>>
vars == <<qevents, destroyed, prof_vars, pc, iter_vars, ingest_log, last, io_vars>>

\* The API is called from one thread: a call starts only when no call runs.
Callable == pc \in {"idle", "done", "failed"}

(***************************************************************************)
(* cl4_prof_new                                                            *)
(***************************************************************************)
cl4_prof_new ==
    /\ cqueues = {}
    /\ refcnt = [q \in CQs |-> 1]
    /\ destroyed = {}
    /\ nonnull = {}
    /\ event_names = EmptyTable
    /\ event_name_ids = EmptyTable
    /\ event_instants = <<>>
    /\ num_events = 0
    /\ events = <<>>
    /\ aggregate = EmptyTable
    /\ overmat = EmptyTable
    /\ total_events_time = 0
    /\ total_events_eff_time = 0
    /\ start_time = CL_ULONG_MAX
    /\ total_overlap = 0
    /\ pc = "idle"
    /\ iter_todo = {}
    /\ iter_cur = {}
    /\ iter_pos = 0
    /\ ingest_log = <<>>
    /\ last = [op |-> "new", arg |-> <<>>, status |-> "ok"]

(***************************************************************************)
(* Queue wrappers' reference counting.                                     *)
(***************************************************************************)
\* Decrement the count; at 0 the wrapper is destroyed.
cl4_cqueue_destroy(r, cq) == [r EXCEPT ![cq] = @ - 1]
cl4_cqueue_ref(r, cq) == [r EXCEPT ![cq] = @ + 1]

\* The wrappers a count of 0 has released.
released(r) == {q \in DOMAIN r : r[q] = 0}

\* What cl4_cqueue_ref can do on a wrapper that was freed: the increment
\* goes to released memory, or the process dies.
UseAfterFreeOutcomes == {"continue", "crash"}

(***************************************************************************)
(* cl4_prof_add_queue                                                      *)
(***************************************************************************)
\* The hash and key-equality functions prof->cqueues is created with.
g_str_hash(p) == StrAt(p)
g_direct_equal(a, b) == a = b
cqueues_key_equal(a, b) == g_direct_equal(a, b)

\* The entries of the table whose key matches `key`.
cqueues_lookup(tab, key) ==
    {e \in tab : g_str_hash(e.key) = g_str_hash(key)
                 /\ cqueues_key_equal(e.key, key)}

\* Mutant: only the NULL check.
add_queue_precond_nullonly(cq) == cq # "NULL"

\* Whether the call passes the g_return_if_fail checks.
add_queue_precond(cq) == cq # "NULL" /\ "aggregate" \notin nonnull

cl4_prof_add_queue(cq_name, cq) ==
    /\ UNCHANGED io_vars
    /\ Callable
    /\ IF ~add_queue_precond(cq)
       THEN /\ last' = [op |-> "add_queue", arg |-> <<cq_name, cq>>,
                        status |-> "rejected"]
            /\ UNCHANGED <<qevents, destroyed, prof_vars, pc, iter_vars, ingest_log>>
       ELSE LET old == cqueues_lookup(cqueues, cq_name)
                \* g_hash_table_replace: the old value goes to the
                \* value-destroy function cl4_cqueue_destroy
                r1 == IF old = {} THEN refcnt
                      ELSE cl4_cqueue_destroy(refcnt, (CHOOSE e \in old : TRUE).value)
            IN  /\ nonnull' = nonnull \cup {"cqueues"}
                /\ cqueues' = (cqueues \ old)
                                \cup {[key |-> cq_name, value |-> cq]}
                /\ destroyed' = destroyed \cup released(r1)
                \* cl4_cqueue_ref(cq) comes after the replace: when the
                \* replace has just released cq itself it writes to a
                \* freed wrapper
                /\ \E ub \in UseAfterFreeOutcomes :
                      IF cq \in released(r1) /\ ub = "crash"
                      THEN /\ refcnt' = r1
                           /\ pc' = "crashed"
                           /\ last' = [op |-> "add_queue",
                                       arg |-> <<cq_name, cq>>,
                                       status |-> "crashed"]
                      ELSE /\ refcnt' = cl4_cqueue_ref(r1, cq)
                           /\ pc' = pc
                           /\ last' = [op |-> "add_queue",
                                       arg |-> <<cq_name, cq>>,
                                       status |-> IF old = {} THEN "ok"
                                                  ELSE "warned"]
                /\ UNCHANGED <<qevents, event_names, event_name_ids,
                               event_instants, num_events, events, aggregate,
                               overmat, total_events_time,
                               total_events_eff_time, start_time,
                               total_overlap, iter_vars, ingest_log>>

\* The caller gives up the reference it got when it created the wrapper:
\* cl4_cqueue_destroy(cq) called by the application.  The caller still has
\* its reference while the count exceeds the references of the table.
caller_holds(cq) ==
    /\ cq \notin destroyed
    /\ refcnt[cq] > Cardinality({e \in cqueues : e.value = cq})

caller_cqueue_destroy(cq) ==
    /\ Callable
    /\ caller_holds(cq)
    /\ refcnt' = cl4_cqueue_destroy(refcnt, cq)
    /\ destroyed' = destroyed \cup released(refcnt')
    /\ last' = [op |-> "cqueue_destroy", arg |-> <<cq>>, status |-> "ok"]
    /\ UNCHANGED <<qevents, cqueues, nonnull, event_names, event_name_ids,
                   event_instants, num_events, events, aggregate, overmat,
                   total_events_time, total_events_eff_time, start_time,
                   total_overlap, pc, iter_vars, ingest_log, io_vars>>

(***************************************************************************)
(* Records, comparators and the list sort.                                 *)
(***************************************************************************)
\* Mutant: the comparison in ascending order.
CL4_PROF_CMP_ascending(x, y) ==
    IF ULess(x, y) THEN -1 ELSE IF ULess(y, x) THEN 1 ELSE 0

CL4_PROF_CMP(x, y) == IF ULess(x, y) THEN 1 ELSE IF ULess(y, x) THEN -1 ELSE 0

cl4_prof_eventinst_new(event_name, queue_name, id, instant, type) ==
    [event_name |-> event_name, queue_name |-> queue_name, id |-> id,
     instant |-> instant, type |-> type]

cl4_prof_event_new(event_name, queue_name, t_queued, t_submit, t_start, t_end) ==
    [event_name |-> event_name, queue_name |-> queue_name,
     t_queued |-> t_queued, t_submit |-> t_submit,
     t_start |-> t_start, t_end |-> t_end]

\* Mutant: the id sort compares the ids with CL4_PROF_CMP and nothing else.
cl4_prof_eventinst_comp_idcmp(a, b, sort_type) ==
    IF sort_type = "SORT_INSTANT"
    THEN CL4_PROF_CMP(a.instant, b.instant)
    ELSE IF sort_type = "SORT_ID"
    THEN CL4_PROF_CMP(a.id, b.id)
    ELSE 0

cl4_prof_eventinst_comp(a, b, sort_type) ==
    IF sort_type = "SORT_INSTANT"
    THEN CL4_PROF_CMP(a.instant, b.instant)
    ELSE IF sort_type = "SORT_ID"
    THEN IF a.id > b.id THEN 1
         ELSE IF a.id < b.id THEN -1
         ELSE IF a.type = "END" THEN 1
         ELSE IF a.type = "START" THEN -1
         ELSE 0
    ELSE 0

\* g_list_sort_with_data: GLib's merge sort.  The list is cut after its
\* first floor(n/2) elements, both parts are sorted, and the merge takes
\* from the first part unless the comparison is positive.
RECURSIVE eventinst_merge(_, _, _)
eventinst_merge(l1, l2, sort_type) ==
    IF l1 = <<>> THEN l2
    ELSE IF l2 = <<>> THEN l1
    ELSE IF cl4_prof_eventinst_comp(Head(l1), Head(l2), sort_type) <= 0
         THEN <<Head(l1)>> \o eventinst_merge(Tail(l1), l2, sort_type)
         ELSE <<Head(l2)>> \o eventinst_merge(l1, Tail(l2), sort_type)

RECURSIVE eventinst_sort(_, _)
eventinst_sort(list, sort_type) ==
    IF Len(list) <= 1 THEN list
    ELSE LET h == Len(list) \div 2
         IN  eventinst_merge(eventinst_sort(SubSeq(list, 1, h), sort_type),
                             eventinst_sort(SubSeq(list, h + 1, Len(list)), sort_type),
                             sort_type)

TableInsert(t, k, v) == [x \in DOMAIN t \cup {k} |-> IF x = k THEN v ELSE t[x]]

\* Mutant: the ids of the event names start at 1.
new_event_name_id_from1(names) == Cardinality(DOMAIN names) + 1

\* The id a name not yet in the table gets: g_hash_table_size(event_names)
\* at the time of its insertion.
new_event_name_id(names) == Cardinality(DOMAIN names)

\* Mutant: the event id is taken before num_events is incremented.
cl4_prof_add_event_postinc(cq_name, evt, fail) ==
    LET event_name == evt.name
        event_id == num_events
        names1 == IF event_name \notin DOMAIN event_names
                  THEN TableInsert(event_names, event_name,
                                   new_event_name_id(event_names))
                  ELSE event_names
        s0 == [num_events |-> num_events + 1, event_names |-> names1,
               start_time |-> start_time, event_instants |-> event_instants,
               events |-> events, err |-> FALSE]
        evinst_start == cl4_prof_eventinst_new(event_name, cq_name, event_id,
                                               evt.t_start, "START")
        s1 == [s0 EXCEPT !.start_time = IF ULess(evt.t_start, @) THEN evt.t_start ELSE @,
                         !.event_instants = <<evinst_start>> \o @]
        evinst_end == cl4_prof_eventinst_new(event_name, cq_name, event_id,
                                             evt.t_end, "END")
        s2 == [s1 EXCEPT !.event_instants = <<evinst_end>> \o @]
        s3 == [s2 EXCEPT !.events =
                  <<cl4_prof_event_new(event_name, cq_name, evt.t_queued,
                                       evt.t_submit, evinst_start.instant,
                                       evinst_end.instant)>> \o @]
    IN  CASE fail = "START" -> [s0 EXCEPT !.err = TRUE]
          [] fail = "END" -> [s1 EXCEPT !.err = TRUE]
          [] fail \in {"QUEUED", "SUBMIT"} -> [s2 EXCEPT !.err = TRUE]
          [] OTHER -> s3

(***************************************************************************)
(* cl4_prof_add_event: the profile fields after the call, `fail` naming    *)
(* the first profiling-info query that fails ("none": all succeed).        *)
(***************************************************************************)
cl4_prof_add_event(cq_name, evt, fail) ==
    LET event_name == evt.name
        event_id == num_events + 1
        names1 == IF event_name \notin DOMAIN event_names
                  THEN TableInsert(event_names, event_name,
                                   new_event_name_id(event_names))
                  ELSE event_names
        s0 == [num_events |-> event_id, event_names |-> names1,
               start_time |-> start_time, event_instants |-> event_instants,
               events |-> events, err |-> FALSE]
        evinst_start == cl4_prof_eventinst_new(event_name, cq_name, event_id,
                                               evt.t_start, "START")
        s1 == [s0 EXCEPT !.start_time = IF ULess(evt.t_start, @) THEN evt.t_start ELSE @,
                         !.event_instants = <<evinst_start>> \o @]
        evinst_end == cl4_prof_eventinst_new(event_name, cq_name, event_id,
                                             evt.t_end, "END")
        s2 == [s1 EXCEPT !.event_instants = <<evinst_end>> \o @]
        s3 == [s2 EXCEPT !.events =
                  <<cl4_prof_event_new(event_name, cq_name, evt.t_queued,
                                       evt.t_submit, evinst_start.instant,
                                       evinst_end.instant)>> \o @]
    IN  CASE fail = "START" -> [s0 EXCEPT !.err = TRUE]
          [] fail = "END" -> [s1 EXCEPT !.err = TRUE]
          [] fail \in {"QUEUED", "SUBMIT"} -> [s2 EXCEPT !.err = TRUE]
          [] OTHER -> s3

(***************************************************************************)
(* cl4_prof_calc_agg                                                       *)
(***************************************************************************)
\* Mutant: the total is assigned the last interval instead of accumulating.
RECURSIVE calc_agg_walk_assign(_, _)
calc_agg_walk_assign(list, st) ==
    IF list = <<>> THEN st
    ELSE IF Len(list) < 2 THEN [st EXCEPT !.crashed = TRUE]
    ELSE LET start_inst == list[1].instant
             end_inst == list[2].instant
             name == list[2].event_name
             d == USub(end_inst, start_inst)
         IN  calc_agg_walk_assign(
                 SubSeq(list, 3, Len(list)),
                 [st EXCEPT !.agg[name].absolute_time = UAdd(@, d),
                            !.total = d])

\* The walk over the id-sorted instants, two at a time: the first of each
\* two is read as the START and the second as the END of one event.
RECURSIVE calc_agg_walk(_, _)
calc_agg_walk(list, st) ==
    IF list = <<>> THEN st
    ELSE IF Len(list) < 2 THEN [st EXCEPT !.crashed = TRUE]
    ELSE LET start_inst == list[1].instant
             end_inst == list[2].instant
             name == list[2].event_name
             d == USub(end_inst, start_inst)
         IN  calc_agg_walk(
                 SubSeq(list, 3, Len(list)),
                 [st EXCEPT !.agg[name].absolute_time = UAdd(@, d),
                            !.total = UAdd(@, d)])

\* relative_time is the double absolute_time / total_events_time, kept as
\* the two operands of the division (den = 0: the division by zero).
calc_agg_result(names, instants, total0) ==
    LET agg0 == [n \in DOMAIN names |->
                    [event_name |-> n, absolute_time |-> 0,
                     relative_time |-> [num |-> 0, den |-> 0]]]
        sorted == eventinst_sort(instants, "SORT_ID")
        w == calc_agg_walk(sorted, [agg |-> agg0, total |-> total0,
                                    crashed |-> FALSE])
    IN  [event_instants |-> sorted,
         aggregate |-> [n \in DOMAIN w.agg |->
                           [w.agg[n] EXCEPT !.relative_time =
                               [num |-> w.agg[n].absolute_time, den |-> w.total]]],
         total_events_time |-> w.total,
         crashed |-> w.crashed]

(***************************************************************************)
(* cl4_prof_calc_overmat                                                   *)
(***************************************************************************)
\* The pair-start lookup of the END branch: the inner table of the smaller
\* id, then the larger id in it.  A miss returns NULL, which the code
\* dereferences.
overlaps_hit(overlaps, k1, k2) ==
    k1 \in DOMAIN overlaps /\ k2 \in DOMAIN overlaps[k1]

\* START branch: for every occurring event, store the current instant under
\* (smaller id, larger id); then add the event to the occurring events.
sweep_start(st, inst, names) ==
    LET occ == DOMAIN st.occurring
        k1s == {Min2(inst.id, f) : f \in occ}
        inner(k1) == IF k1 \in DOMAIN st.overlaps THEN st.overlaps[k1]
                     ELSE EmptyTable
        k2s(k1) == {Max2(inst.id, f) : f \in {g \in occ : Min2(inst.id, g) = k1}}
    IN  [st EXCEPT
            !.overlaps = [k1 \in DOMAIN st.overlaps \cup k1s |->
                            [k2 \in DOMAIN inner(k1) \cup k2s(k1) |->
                                IF k2 \in k2s(k1) THEN inst.instant
                                ELSE inner(k1)[k2]]],
            !.occurring = TableInsert(st.occurring, inst.id,
                                      names[inst.event_name])]

RECURSIVE SumOver(_, _)
SumOver(S, f) ==
    IF S = {} THEN 0
    ELSE LET x == CHOOSE y \in S : TRUE
         IN  f[x] + SumOver(S \ {x}, f)

\* END branch: remove the event from the occurring events; for every event
\* still occurring, add (current instant - pair start) to the matrix entry
\* of the two name ids and to the total overlap.
sweep_end(st, inst, names, n) ==
    LET occ1 == [f \in DOMAIN st.occurring \ {inst.id} |-> st.occurring[f]]
        k1(f) == Min2(inst.id, f)
        k2(f) == Max2(inst.id, f)
        miss == \E f \in DOMAIN occ1 : ~overlaps_hit(st.overlaps, k1(f), k2(f))
        eff == [f \in DOMAIN occ1 |->
                   USub(inst.instant, st.overlaps[k1(f)][k2(f)])]
        ueid_curr == names[inst.event_name]
        cell(f) == Min2(ueid_curr, occ1[f]) * n + Max2(ueid_curr, occ1[f])
    IN  IF miss THEN [st EXCEPT !.occurring = occ1, !.crashed = TRUE]
        ELSE [st EXCEPT
                !.occurring = occ1,
                !.mat = [c \in DOMAIN st.mat |->
                            UAdd(st.mat[c],
                                 SumOver({f \in DOMAIN occ1 : cell(f) = c},
                                         eff))],
                !.total = UAdd(st.total, SumOver(DOMAIN occ1, eff))]

RECURSIVE sweep(_, _, _, _)
sweep(list, st, names, n) ==
    IF list = <<>> \/ st.crashed THEN st
    ELSE sweep(Tail(list),
               IF Head(list).type = "START"
               THEN sweep_start(st, Head(list), names)
               ELSE sweep_end(st, Head(list), names, n),
               names, n)

\* Mutant: the matrix is allocated without being cleared.
overlap_matrix_new_uncleared(n) == [c \in 0 .. (n * n - 1) |-> 1]

\* g_new0(cl_ulong, num_event_names * num_event_names): n * n entries, all 0.
overlap_matrix_new(n) == [c \in 0 .. (n * n - 1) |-> 0]

\* The effective events time saved at the end of cl4_prof_calc_overmat.
eff_time(total, overlap) == USub(total, overlap)

calc_overmat_result(names, instants, total) ==
    LET n == Cardinality(DOMAIN names)
        sorted == eventinst_sort(instants, "SORT_INSTANT")
        w == sweep(sorted,
                   [occurring |-> EmptyTable, overlaps |-> EmptyTable,
                    mat |-> overlap_matrix_new(n), total |-> 0,
                    crashed |-> FALSE],
                   names, n)
    IN  [event_instants |-> sorted, overmat |-> w.mat,
         total_overlap |-> w.total,
         total_events_eff_time |-> eff_time(total, w.total),
         crashed |-> w.crashed]

(***************************************************************************)
(* cl4_prof_calc, step by step: the guard and table creation, the ingest   *)
(* loops of cl4_prof_process_queues, then the aggregator and the sweep.    *)
(***************************************************************************)
\* Mutant: no check that the calculations were not made yet.
calc_precond_none == TRUE

\* "Calculations can only be performed once."
calc_precond == "aggregate" \notin nonnull

\* With no queue ever added prof->cqueues is NULL: g_hash_table_iter_init
\* returns without initialising the iterator, and the loop reads it.  The
\* read either faults or ends the loop at once.
UninitIterOutcomes == {"crash", "end"}

cl4_prof_calc_begin ==
    /\ UNCHANGED io_vars
    /\ Callable
    /\ IF ~calc_precond
       THEN /\ last' = [op |-> "calc", arg |-> <<>>, status |-> "rejected"]
            /\ UNCHANGED <<qevents, destroyed, prof_vars, pc, iter_vars, ingest_log>>
       ELSE \E o \in UninitIterOutcomes :
            /\ nonnull' = nonnull \cup {"aggregate", "event_names"}
            /\ aggregate' = EmptyTable
            /\ event_names' = EmptyTable
            /\ last' = [op |-> "calc", arg |-> <<>>, status |-> "running"]
            /\ IF "cqueues" \in nonnull
               THEN pc' = "ingest" /\ iter_todo' = cqueues
               ELSE /\ pc' = IF o = "crash" THEN "crashed" ELSE "ingest"
                    /\ iter_todo' = {}
            /\ iter_cur' = {}
            /\ iter_pos' = 0
            /\ UNCHANGED <<qevents, destroyed, cqueues, refcnt, event_name_ids,
                           event_instants, num_events, events, overmat,
                           total_events_time, total_events_eff_time,
                           start_time, total_overlap, ingest_log>>

\* Outer loop of cl4_prof_process_queues: the table iterator hands out the
\* next queue (in the table's order, which the names' hashes decide) and
\* its event iterator is created.
process_queues_next_queue ==
    /\ UNCHANGED io_vars
    /\ pc = "ingest"
    /\ iter_cur = {}
    /\ \E e \in iter_todo :
          /\ iter_todo' = iter_todo \ {e}
          /\ iter_cur' = IF qevents[e.value] = <<>> THEN {} ELSE {e}
          /\ iter_pos' = 0
    /\ UNCHANGED <<qevents, destroyed, prof_vars, pc, ingest_log, last>>

\* Mutant: the error of cl4_prof_add_event is not looked at.
process_queues_err_ignored(r) == FALSE

\* "if (*err != NULL) return;" after the call of cl4_prof_add_event.
process_queues_err(r) == r.err

\* Inner loop body: the next event of the current queue goes to
\* cl4_prof_add_event; an error ends cl4_prof_process_queues and makes
\* cl4_prof_calc return CL_FALSE.
process_queues_add_event(fail) ==
    /\ UNCHANGED io_vars
    /\ pc = "ingest"
    /\ iter_cur # {}
    /\ LET e == CHOOSE x \in iter_cur : TRUE
           evt == qevents[e.value][iter_pos + 1]
           r == cl4_prof_add_event(e.key, evt, fail)
       IN  /\ num_events' = r.num_events
           /\ event_names' = r.event_names
           /\ start_time' = r.start_time
           /\ event_instants' = r.event_instants
           /\ events' = r.events
           /\ ingest_log' = Append(ingest_log,
                                   [cq_name |-> e.key, evt |-> evt, fail |-> fail])
           /\ IF process_queues_err(r)
              THEN /\ pc' = "failed"
                   /\ last' = [op |-> "calc", arg |-> <<>>, status |-> "error"]
                   /\ UNCHANGED iter_vars
              ELSE /\ iter_pos' = iter_pos + 1
                   /\ iter_cur' = IF iter_pos + 1 = Len(qevents[e.value])
                                  THEN {} ELSE iter_cur
                   /\ UNCHANGED <<pc, last, iter_todo>>
    /\ UNCHANGED <<qevents, destroyed, cqueues, refcnt, nonnull, event_name_ids,
                   aggregate, overmat, total_events_time,
                   total_events_eff_time, total_overlap>>

\* After the loops: the reverse table of event names.
process_queues_end ==
    /\ UNCHANGED io_vars
    /\ pc = "ingest"
    /\ iter_cur = {}
    /\ iter_todo = {}
    /\ event_name_ids' =
          [i \in {event_names[n] : n \in DOMAIN event_names} |->
              CHOOSE n \in DOMAIN event_names : event_names[n] = i]
    /\ nonnull' = nonnull \cup {"event_name_ids"}
    /\ pc' = "agg"
    /\ UNCHANGED <<qevents, destroyed, cqueues, refcnt, event_names, event_instants,
                   num_events, events, aggregate, overmat, total_events_time,
                   total_events_eff_time, start_time, total_overlap,
                   iter_vars, ingest_log, last>>

cl4_prof_calc_agg ==
    /\ UNCHANGED io_vars
    /\ pc = "agg"
    /\ LET r == calc_agg_result(event_names, event_instants, total_events_time)
       IN  /\ event_instants' = r.event_instants
           /\ aggregate' = r.aggregate
           /\ total_events_time' = r.total_events_time
           /\ pc' = IF r.crashed THEN "crashed" ELSE "overmat"
    /\ UNCHANGED <<qevents, destroyed, cqueues, refcnt, nonnull, event_names,
                   event_name_ids, num_events, events, overmat,
                   total_events_eff_time, start_time, total_overlap,
                   iter_vars, ingest_log, last>>

\* The sweep; a missed pair-start lookup is a NULL dereference, which ends
\* the process before any result is stored.
cl4_prof_calc_overmat ==
    /\ UNCHANGED io_vars
    /\ pc = "overmat"
    /\ LET r == calc_overmat_result(event_names, event_instants,
                                    total_events_time)
       IN  /\ event_instants' = r.event_instants
           /\ IF r.crashed
              THEN /\ pc' = "crashed"
                   /\ UNCHANGED <<overmat, nonnull, total_overlap,
                                  total_events_eff_time, last>>
              ELSE /\ pc' = "done"
                   /\ overmat' = r.overmat
                   \* g_new0 of zero elements returns NULL
                   /\ nonnull' = IF DOMAIN r.overmat = {} THEN nonnull
                                 ELSE nonnull \cup {"overmat"}
                   /\ total_overlap' = r.total_overlap
                   /\ total_events_eff_time' = r.total_events_eff_time
                   /\ last' = [op |-> "calc", arg |-> <<>>, status |-> "ok"]
    /\ UNCHANGED <<qevents, destroyed, cqueues, refcnt, event_names, event_name_ids,
                   num_events, events, aggregate, total_events_time,
                   start_time, iter_vars, ingest_log>>

(***************************************************************************)
(* Export options, and the export of the event records.                    *)
(***************************************************************************)
\* The initial value of the static export_options: tab, newline, no
\* delimiters, zero_start set.
DefaultExportOptions ==
    [separator |-> <<9>>, newline |-> <<10>>, queue_delim |-> <<>>,
     evname_delim |-> <<>>, zero_start |-> TRUE]

\* Records handed to cl4_prof_set_export_opts: the defaults, the defaults
\* with zero_start cleared, and ';' with quoting delimiters.
ExportOptionsChoices ==
    { DefaultExportOptions,
      [DefaultExportOptions EXCEPT !.zero_start = FALSE],
      [separator |-> <<59>>, newline |-> <<10>>, queue_delim |-> <<34>>,
       evname_delim |-> <<39>>, zero_start |-> FALSE] }

\* fp: whether fopen gave a handle, how often it was closed, whether the
\* stream export was called on it and what that call returned.
NoFile == [opened |-> FALSE, closes |-> 0, exported |-> FALSE,
           status |-> "none"]

\* Threads that call cl4_prof_set_export_opts and the thread that calls
\* cl4_prof_get_export_opts, each once.
Setters == {"s1", "s2"}
Getter == "g"
Threads == Setters \cup {Getter}

\* The words of a CL4ProfExportOptions: a struct assignment copies them one
\* after another.
OptFields == {"separator", "newline", "queue_delim", "evname_delim",
              "zero_start"}

io_init ==
    /\ export_options = DefaultExportOptions
    /\ stream = <<>>
    /\ export_err = "none"
    /\ write_failed = 0
    /\ fp = NoFile
    /\ timers = 0
    /\ printed = <<>>
    /\ ret_eventagg = [name |-> <<>>, entry |-> {}]
    /\ lock_owner = "free"
    /\ thr_pc = [t \in Threads |-> "start"]
    /\ thr_arg = [t \in Setters |-> DefaultExportOptions]
    /\ thr_copied = [t \in Threads |-> {}]
    /\ get_ret = DefaultExportOptions

\* g_strcmp0 on two strings: the sign of the first difference.
RECURSIVE g_strcmp0(_, _)
g_strcmp0(s, t) ==
    IF s = <<>> /\ t = <<>> THEN 0
    ELSE IF s = <<>> THEN -1
    ELSE IF t = <<>> THEN 1
    ELSE IF Head(s) < Head(t) THEN -1
    ELSE IF Head(s) > Head(t) THEN 1
    ELSE g_strcmp0(Tail(s), Tail(t))

cl4_prof_event_comp(ev1, ev2, sort_type) ==
    CASE sort_type = "SORT_NAME_EVENT" ->
            g_strcmp0(ev1.event_name, ev2.event_name)
      [] sort_type = "SORT_NAME_QUEUE" ->
            g_strcmp0(StrAt(ev1.queue_name), StrAt(ev2.queue_name))
      [] sort_type = "SORT_T_QUEUED" -> CL4_PROF_CMP(ev1.t_queued, ev2.t_queued)
      [] sort_type = "SORT_T_SUBMIT" -> CL4_PROF_CMP(ev1.t_submit, ev2.t_submit)
      [] sort_type = "SORT_T_START" -> CL4_PROF_CMP(ev1.t_start, ev2.t_start)
      [] sort_type = "SORT_T_END" -> CL4_PROF_CMP(ev1.t_end, ev2.t_end)
      [] OTHER -> 0

\* Mutant: a merge that keeps one of two records that compare equal.
RECURSIVE event_merge_unique(_, _, _)
event_merge_unique(l1, l2, sort_type) ==
    IF l1 = <<>> THEN l2
    ELSE IF l2 = <<>> THEN l1
    ELSE IF cl4_prof_event_comp(Head(l1), Head(l2), sort_type) = 0
         THEN <<Head(l1)>> \o event_merge_unique(Tail(l1), Tail(l2), sort_type)
    ELSE IF cl4_prof_event_comp(Head(l1), Head(l2), sort_type) < 0
         THEN <<Head(l1)>> \o event_merge_unique(Tail(l1), l2, sort_type)
         ELSE <<Head(l2)>> \o event_merge_unique(l1, Tail(l2), sort_type)

\* g_list_sort_with_data on prof->events.
RECURSIVE event_merge(_, _, _)
event_merge(l1, l2, sort_type) ==
    IF l1 = <<>> THEN l2
    ELSE IF l2 = <<>> THEN l1
    ELSE IF cl4_prof_event_comp(Head(l1), Head(l2), sort_type) <= 0
         THEN <<Head(l1)>> \o event_merge(Tail(l1), l2, sort_type)
         ELSE <<Head(l2)>> \o event_merge(l1, Tail(l2), sort_type)

RECURSIVE event_sort(_, _)
event_sort(list, sort_type) ==
    IF Len(list) <= 1 THEN list
    ELSE LET h == Len(list) \div 2
         IN  event_merge(event_sort(SubSeq(list, 1, h), sort_type),
                         event_sort(SubSeq(list, h + 1, Len(list)), sort_type),
                         sort_type)

\* The decimal digits of 2^64, and of a number of that many digits minus k.
Digits2p64 == <<1, 8, 4, 4, 6, 7, 4, 4, 0, 7, 3, 7, 0, 9, 5, 5, 1, 6, 1, 6>>

RECURSIVE dec_sub(_, _)
dec_sub(ds, k) ==
    IF k = 0 \/ ds = <<>> THEN ds
    ELSE LET v == ds[Len(ds)] - (k % 10)
             borrow == IF v < 0 THEN 1 ELSE 0
         IN  dec_sub(SubSeq(ds, 1, Len(ds) - 1), (k \div 10) + borrow)
             \o <<v + 10 * borrow>>

\* The "%lu" conversion: the decimal digits of the cl_ulong n.
RECURSIVE fmt_lu(_)
fmt_lu(n) ==
    IF n < 0 THEN [k \in 1 .. Len(Digits2p64) |-> 48 + dec_sub(Digits2p64, -n)[k]]
    ELSE IF n < 10 THEN <<48 + n>>
    ELSE fmt_lu(n \div 10) \o <<48 + (n % 10)>>

\* Mutant: the end time is written before the start time.
export_line_end_first(ev, o) ==
    o.queue_delim \o StrAt(ev.queue_name) \o o.queue_delim \o o.separator
    \o fmt_lu(ev.t_end) \o o.separator \o fmt_lu(ev.t_start) \o o.separator
    \o o.evname_delim \o ev.event_name \o o.evname_delim \o o.newline

\* The characters one fprintf of cl4_prof_export_info writes for an event
\* record under the export options o.
export_line(ev, o) ==
    o.queue_delim \o StrAt(ev.queue_name) \o o.queue_delim \o o.separator
    \o fmt_lu(ev.t_start) \o o.separator \o fmt_lu(ev.t_end) \o o.separator
    \o o.evname_delim \o ev.event_name \o o.evname_delim \o o.newline

\* cl4_prof_set_export_opts called by the only thread there is.
cl4_prof_set_export_opts(export_opts) ==
    /\ Callable
    /\ export_options' = export_opts
    /\ last' = [op |-> "set_export_opts", arg |-> <<>>, status |-> "ok"]
    /\ UNCHANGED <<qevents, destroyed, prof_vars, pc, iter_vars, ingest_log, stream,
                   export_err, write_failed, fp, timers, report_vars,
                   thr_vars>>

\* The g_return_val_if_fail checks of cl4_prof_export_info.
export_info_precond(prof, strm) == prof # "NULL" /\ strm # "NULL"

\* Mutant: the value fprintf returns is not looked at.
export_info_result_unchecked(prof, strm, evs, o, wfail) ==
    IF ~export_info_precond(prof, strm)
    THEN [events |-> evs, lines |-> <<>>, err |-> "none",
          status |-> "rejected", write_failed |-> 0]
    ELSE LET sorted == event_sort(evs, "SORT_T_START")
             failed == wfail \in 1 .. Len(sorted)
             written == {k \in 1 .. Len(sorted) : k # wfail}
         IN  [events |-> sorted,
              lines |-> [k \in 1 .. Cardinality(written) |->
                            export_line(sorted[IF failed /\ k >= wfail
                                               THEN k + 1 ELSE k], o)],
              err |-> "none", status |-> "ok",
              write_failed |-> IF failed THEN wfail ELSE 0]

\* cl4_prof_export_info on the event list evs: the list after the sort,
\* the lines written, the error set and the value returned.  wfail is the
\* number of the first fprintf that returns a negative value (0: none).
export_info_result(prof, strm, evs, o, wfail) ==
    IF ~export_info_precond(prof, strm)
    THEN [events |-> evs, lines |-> <<>>, err |-> "none",
          status |-> "rejected", write_failed |-> 0]
    ELSE LET sorted == event_sort(evs, "SORT_T_START")
             failed == wfail \in 1 .. Len(sorted)
             nw == IF failed THEN wfail - 1 ELSE Len(sorted)
         IN  [events |-> sorted,
              lines |-> [k \in 1 .. nw |-> export_line(sorted[k], o)],
              err |-> IF failed THEN "CL4_ERROR_STREAM_WRITE" ELSE "none",
              status |-> IF failed THEN "error" ELSE "ok",
              write_failed |-> IF failed THEN wfail ELSE 0]

cl4_prof_export_info(prof, strm, wfail) ==
    /\ Callable
    /\ LET r == export_info_result(prof, strm, events, export_options, wfail)
       IN  /\ events' = r.events
           /\ stream' = r.lines
           /\ export_err' = r.err
           /\ write_failed' = r.write_failed
           /\ last' = [op |-> "export_info", arg |-> <<prof, strm>>,
                       status |-> r.status]
    /\ UNCHANGED <<qevents, destroyed, cqueues, refcnt, nonnull, event_names,
                   event_name_ids, event_instants, num_events, aggregate,
                   overmat, total_events_time, total_events_eff_time,
                   start_time, total_overlap, pc, iter_vars, ingest_log,
                   export_options, fp, timers, report_vars,
                   thr_vars>>

\* cl4_prof_export_info_file(prof, filename, err).  open_ok is what fopen
\* does with the path.  A failed fopen creates the CL4_ERROR_OPENFILE error
\* and goes to error_handler with fp == NULL, so nothing is exported and
\* nothing is closed.  Otherwise the stream export runs on fp; only an error
\* object it set sends the call to error_handler, the value it returned is
\* overwritten with CL_TRUE.  fclose runs once at finish on either path.
cl4_prof_export_info_file(prof, open_ok, wfail) ==
    /\ Callable
    /\ IF ~open_ok
       THEN /\ fp' = NoFile
            /\ export_err' = "CL4_ERROR_OPENFILE"
            /\ write_failed' = 0
            /\ last' = [op |-> "export_info_file", arg |-> <<prof, "path">>,
                        status |-> "error"]
            /\ UNCHANGED <<events, stream>>
       ELSE LET r == export_info_result(prof, "stream", events,
                                        export_options, wfail)
            IN  /\ events' = r.events
                /\ stream' = r.lines
                /\ export_err' = r.err
                /\ write_failed' = r.write_failed
                /\ fp' = [opened |-> TRUE, closes |-> 1, exported |-> TRUE,
                          status |-> r.status]
                /\ last' = [op |-> "export_info_file",
                            arg |-> <<prof, "path">>,
                            status |-> IF r.err # "none" THEN "error"
                                       ELSE "ok"]
    /\ UNCHANGED <<qevents, destroyed, cqueues, refcnt, nonnull, event_names,
                   event_name_ids, event_instants, num_events, aggregate,
                   overmat, total_events_time, total_events_eff_time,
                   start_time, total_overlap, pc, iter_vars, ingest_log,
                   export_options, timers, report_vars, thr_vars>>

(***************************************************************************)
(* cl4_prof_get_eventagg and cl4_prof_print_info.                          *)
(***************************************************************************)
\* "This function can only be called after calculations are made."
get_eventagg_precond == "aggregate" \in nonnull

cl4_prof_get_eventagg(event_name) ==
    /\ Callable
    /\ IF ~get_eventagg_precond
       THEN /\ ret_eventagg' = [name |-> event_name, entry |-> {}]
            /\ last' = [op |-> "get_eventagg", arg |-> <<>>,
                        status |-> "rejected"]
       ELSE /\ ret_eventagg' =
                  [name |-> event_name,
                   entry |-> IF event_name \in DOMAIN aggregate
                             THEN {aggregate[event_name]} ELSE {}]
            /\ last' = [op |-> "get_eventagg", arg |-> <<>>, status |-> "ok"]
    /\ UNCHANGED <<qevents, destroyed, prof_vars, pc, iter_vars, ingest_log,
                   export_options, stream, export_err, write_failed, fp, timers, printed,
                   thr_vars>>

\* Mutant: the time sort compares the second entry with the first.
cl4_prof_eventagg_comp_swapped(ev_agg1, ev_agg2, sort_type) ==
    CASE sort_type = "SORT_NAME" ->
            g_strcmp0(ev_agg1.event_name, ev_agg2.event_name)
      [] sort_type = "SORT_TIME" ->
            CL4_PROF_CMP(ev_agg2.absolute_time, ev_agg1.absolute_time)
      [] OTHER -> 0

cl4_prof_eventagg_comp(ev_agg1, ev_agg2, sort_type) ==
    CASE sort_type = "SORT_NAME" ->
            g_strcmp0(ev_agg1.event_name, ev_agg2.event_name)
      [] sort_type = "SORT_TIME" ->
            CL4_PROF_CMP(ev_agg1.absolute_time, ev_agg2.absolute_time)
      [] OTHER -> 0

\* g_list_sort_with_data on the list of aggregate entries.
RECURSIVE eventagg_merge(_, _, _)
eventagg_merge(l1, l2, sort_type) ==
    IF l1 = <<>> THEN l2
    ELSE IF l2 = <<>> THEN l1
    ELSE IF cl4_prof_eventagg_comp(Head(l1), Head(l2), sort_type) <= 0
         THEN <<Head(l1)>> \o eventagg_merge(Tail(l1), l2, sort_type)
         ELSE <<Head(l2)>> \o eventagg_merge(l1, Tail(l2), sort_type)

RECURSIVE eventagg_sort(_, _)
eventagg_sort(list, sort_type) ==
    IF Len(list) <= 1 THEN list
    ELSE LET h == Len(list) \div 2
         IN  eventagg_merge(eventagg_sort(SubSeq(list, 1, h), sort_type),
                            eventagg_sort(SubSeq(list, h + 1, Len(list)), sort_type),
                            sort_type)

\* g_hash_table_get_values: the entries of the table in some order.
g_hash_table_get_values(t) ==
    {l \in [1 .. Cardinality(DOMAIN t) -> {t[n] : n \in DOMAIN t}] :
        \A i, j \in DOMAIN l : i # j => l[i] # l[j]}

\* One g_print call of cl4_prof_print_info: which line it is and the
\* values its conversions are given.
PLine(kind, name1, name2, value, rel) ==
    [kind |-> kind, name1 |-> name1, name2 |-> name2, value |-> value,
     rel |-> rel]
PText(kind) == PLine(kind, <<>>, <<>>, 0, [num |-> 0, den |-> 1])

\* The matrix cells the overlap loop of cl4_prof_print_info visits, row by
\* row, and the rows of the overlap table it collects.
RECURSIVE overlap_rows(_, _)
overlap_rows(c, n) ==
    IF c >= n * n THEN <<>>
    ELSE (IF ULess(0, overmat[c])
          THEN <<PLine("overlap", event_name_ids[c \div n],
                       event_name_ids[c % n], overmat[c],
                       [num |-> 0, den |-> 1])>>
          ELSE <<>>) \o overlap_rows(c + 1, n)

\* cl4_prof_print_info on a non-NULL profile, values being the list
\* g_hash_table_get_values gave: the g_print calls made, and whether the
\* overlap loop read prof->overmat through a NULL pointer.
print_info_result(values, sort_type) ==
    LET head == <<PText("banner")>>
                \o (IF "timer" \in nonnull THEN <<PText("elapsed")>> ELSE <<>>)
                \o (IF ULess(0, total_events_time)
                    THEN <<PLine("total", <<>>, <<>>, total_events_time,
                                 [num |-> 0, den |-> 1])>>
                    ELSE <<>>)
        sorted == eventagg_sort(values, sort_type)
        aggs == IF Len(values) > 0
                THEN <<PText("agg_title"), PText("rule"), PText("agg_columns"),
                       PText("rule")>>
                     \o [k \in 1 .. Len(sorted) |->
                            PLine("agg", sorted[k].event_name, <<>>,
                                  sorted[k].absolute_time,
                                  sorted[k].relative_time)]
                     \o <<PText("rule")>>
                ELSE <<>>
        num_event_names == Cardinality(DOMAIN event_names)
        crashed == num_event_names > 0 /\ "overmat" \notin nonnull
        rows == IF crashed THEN <<>> ELSE overlap_rows(0, num_event_names)
        over == IF Len(rows) > 0
                THEN <<PLine("eff", <<>>, <<>>, total_events_eff_time,
                             [num |-> 0, den |-> 1]),
                       PLine("saved", <<>>, <<>>,
                             USub(total_events_time, total_events_eff_time),
                             [num |-> 0, den |-> 1]),
                       PText("overlap_title"), PText("rule"),
                       PText("overlap_columns"), PText("rule")>>
                     \o rows \o <<PText("rule")>>
                ELSE <<>>
    IN  [lines |-> IF crashed THEN head \o aggs ELSE head \o aggs \o over,
         crashed |-> crashed]

cl4_prof_print_info(prof, ev_aggSortType) ==
    /\ Callable
    /\ IF prof = "NULL"
       THEN /\ printed' = <<>>
            /\ last' = [op |-> "print_info", arg |-> <<prof, ev_aggSortType>>,
                        status |-> "rejected"]
            /\ pc' = pc
       ELSE \E values \in g_hash_table_get_values(aggregate) :
            LET r == print_info_result(values, ev_aggSortType)
            IN  /\ printed' = r.lines
                /\ pc' = IF r.crashed THEN "crashed" ELSE pc
                /\ last' = [op |-> "print_info",
                            arg |-> <<prof, ev_aggSortType>>,
                            status |-> IF r.crashed THEN "crashed" ELSE "ok"]
    /\ UNCHANGED <<qevents, destroyed, prof_vars, iter_vars, ingest_log, export_options,
                   stream, export_err, write_failed, fp, timers, ret_eventagg, thr_vars>>

(***************************************************************************)
(* cl4_prof_start and cl4_prof_destroy.  After cl4_prof_destroy the         *)
(* variables hold the objects that are still allocated.                    *)
(***************************************************************************)
\* prof->timer = g_timer_new(): whatever timer the field pointed to before
\* stays allocated.
cl4_prof_start ==
    /\ Callable
    /\ timers < MaxStarts
    /\ timers' = timers + 1
    /\ nonnull' = nonnull \cup {"timer"}
    /\ last' = [op |-> "start", arg |-> <<>>, status |-> "ok"]
    /\ UNCHANGED <<qevents, destroyed, cqueues, refcnt, event_names, event_name_ids,
                   event_instants, num_events, events, aggregate, overmat,
                   total_events_time, total_events_eff_time, start_time,
                   total_overlap, pc, iter_vars, ingest_log, export_options,
                   stream, export_err, write_failed, fp, report_vars, thr_vars>>

\* g_hash_table_destroy(prof->cqueues): the value-destroy function
\* cl4_cqueue_destroy is called once per entry.
RECURSIVE cqueues_destroy(_, _)
cqueues_destroy(r, tab) ==
    IF tab = {} THEN r
    ELSE LET e == CHOOSE x \in tab : TRUE
         IN  cqueues_destroy(cl4_cqueue_destroy(r, e.value), tab \ {e})

cl4_prof_destroy ==
    /\ Callable
    /\ event_names' = EmptyTable
    /\ cqueues' = {}
    /\ refcnt' = cqueues_destroy(refcnt, cqueues)
    /\ event_instants' = <<>>
    /\ event_name_ids' = EmptyTable
    /\ aggregate' = EmptyTable
    /\ overmat' = EmptyTable
    /\ timers' = IF "timer" \in nonnull THEN timers - 1 ELSE timers
    /\ nonnull' = {}
    /\ pc' = "destroyed"
    /\ last' = [op |-> "destroy", arg |-> <<>>, status |-> "ok"]
    /\ destroyed' = destroyed \cup released(cqueues_destroy(refcnt, cqueues))
    /\ UNCHANGED <<qevents, num_events, events, total_events_time,
                   total_events_eff_time, start_time, total_overlap,
                   iter_vars, ingest_log, export_options, stream, export_err,
                   write_failed, fp, report_vars, thr_vars>>

(***************************************************************************)
(* cl4_prof_set_export_opts and cl4_prof_get_export_opts called from       *)
(* several threads, one word of the struct at a time.                      *)
(***************************************************************************)
other_vars == <<qevents, destroyed, prof_vars, pc, iter_vars, ingest_log, last, stream,
                export_err, write_failed, fp, timers, report_vars>>

\* G_LOCK(export_options) in cl4_prof_set_export_opts.
set_export_opts_lock(t, export_opts) ==
    /\ thr_pc[t] = "start"
    /\ lock_owner = "free"
    /\ lock_owner' = t
    /\ thr_arg' = [thr_arg EXCEPT ![t] = export_opts]
    /\ thr_pc' = [thr_pc EXCEPT ![t] = "copy"]
    /\ UNCHANGED <<other_vars, export_options, thr_copied, get_ret>>

\* export_options = export_opts: one word of the assignment.
set_export_opts_copy(t, f) ==
    /\ thr_pc[t] = "copy"
    /\ f \in OptFields \ thr_copied[t]
    /\ export_options' = [export_options EXCEPT ![f] = thr_arg[t][f]]
    /\ thr_copied' = [thr_copied EXCEPT ![t] = @ \cup {f}]
    /\ UNCHANGED <<other_vars, lock_owner, thr_pc, thr_arg, get_ret>>

\* G_UNLOCK(export_options).
set_export_opts_unlock(t) ==
    /\ thr_pc[t] = "copy"
    /\ thr_copied[t] = OptFields
    /\ lock_owner' = "free"
    /\ thr_pc' = [thr_pc EXCEPT ![t] = "done"]
    /\ UNCHANGED <<other_vars, export_options, thr_arg, thr_copied, get_ret>>

\* cl4_prof_get_export_opts: "return export_options", one word of the copy
\* into the returned struct; no lock is taken.
get_export_opts_copy(f) ==
    /\ thr_pc[Getter] \in {"start", "copy"}
    /\ f \in OptFields \ thr_copied[Getter]
    /\ get_ret' = [get_ret EXCEPT ![f] = export_options[f]]
    /\ thr_copied' = [thr_copied EXCEPT ![Getter] = @ \cup {f}]
    /\ thr_pc' = [thr_pc EXCEPT ![Getter] = "copy"]
    /\ UNCHANGED <<other_vars, export_options, lock_owner, thr_arg>>

get_export_opts_return ==
    /\ thr_pc[Getter] = "copy"
    /\ thr_copied[Getter] = OptFields
    /\ thr_pc' = [thr_pc EXCEPT ![Getter] = "done"]
    /\ UNCHANGED <<other_vars, export_options, lock_owner, thr_arg,
                   thr_copied, get_ret>>

(***************************************************************************)
(* Specifications.                                                         *)
(***************************************************************************)
NoEvents == [q \in CQs |-> <<>>]

\* Queue contents of the life-cycle specification: the empty queues, a
\* single event, disjoint events, overlapping events of different and of
\* equal names on two queues, a three-way overlap, a zero-duration event,
\* and four events running at the same time.
Scenarios ==
    { NoEvents,
      [NoEvents EXCEPT !["cq1"] = <<Ev(NameK, 1, 2)>>],
      [NoEvents EXCEPT !["cq1"] = <<Ev(NameK, 1, 2), Ev(NameK, 3, 5)>>],
      [NoEvents EXCEPT !["cq1"] = <<Ev(NameA, 1, 3)>>,
                       !["cq2"] = <<Ev(NameB, 2, 4)>>],
      [NoEvents EXCEPT !["cq1"] = <<Ev(NameK, 1, 3)>>,
                       !["cq2"] = <<Ev(NameK, 2, 4)>>],
      [NoEvents EXCEPT !["cq1"] = <<Ev(NameA, 1, 5), Ev(NameC, 3, 4)>>,
                       !["cq2"] = <<Ev(NameB, 2, 6)>>],
      [NoEvents EXCEPT !["cq1"] = <<Ev(NameA, 2, 2)>>,
                       !["cq2"] = <<Ev(NameB, 1, 3)>>],
      [NoEvents EXCEPT !["cq1"] = <<Ev(NameA, 1, 3), Ev(NameB, 1, 3)>>,
                       !["cq2"] = <<Ev(NameA, 1, 3), Ev(NameB, 1, 3)>>] }

\* Every event with a name in {a, b} and t_start <= t_end in 0..MaxT.
EventKinds ==
    {k \in {Ev(n, s, e) : n \in {NameA, NameB},
                          s \in 0 .. MaxT, e \in 0 .. MaxT} :
        k.t_start <= k.t_end}

SeqsUpTo(S, n) == UNION {[1 .. k -> S] : k \in 0 .. n}

Init ==
    /\ cl4_prof_new
    /\ io_init
    /\ qevents \in Scenarios

Next ==
    \/ \E p \in QNamePtrs, cq \in CQs \cup {"NULL"} : cl4_prof_add_queue(p, cq)
    \/ cl4_prof_calc_begin
    \/ process_queues_next_queue
    \/ \E f \in QueryOutcomes : process_queues_add_event(f)
    \/ process_queues_end
    \/ cl4_prof_calc_agg
    \/ cl4_prof_calc_overmat

Spec == Init /\ [][Next]_vars

\* One queue, registered as "q0", holding every event sequence of at most
\* MaxEvents events; every query succeeds.
InitCalc ==
    /\ cl4_prof_new
    /\ io_init
    /\ \E s \in SeqsUpTo(EventKinds, MaxEvents) :
          qevents = [NoEvents EXCEPT !["cq1"] = s]

NextCalc ==
    \/ cl4_prof_add_queue("p1", "cq1")
    \/ cl4_prof_calc_begin
    \/ process_queues_next_queue
    \/ process_queues_add_event("none")
    \/ process_queues_end
    \/ cl4_prof_calc_agg
    \/ cl4_prof_calc_overmat

SpecCalc == InitCalc /\ [][NextCalc]_vars

\* The scenarios of the export: those above and one whose instants have
\* several decimal digits.
ExportScenarios ==
    Scenarios \cup
    { [NoEvents EXCEPT !["cq1"] = <<Ev(NameA, 100, 300)>>,
                       !["cq2"] = <<Ev(NameK, 1100, 1200)>>] }

\* Export: the two queues of a scenario registered as "q0" and "q1",
\* calculate, and the export calls under every choice of options.
InitExport ==
    /\ cl4_prof_new
    /\ io_init
    /\ qevents \in ExportScenarios

NextExport ==
    \/ cl4_prof_add_queue("p1", "cq1")
    \/ cl4_prof_add_queue("p3", "cq2")
    \/ cl4_prof_calc_begin
    \/ process_queues_next_queue
    \/ \E f \in {"none", "SUBMIT"} : process_queues_add_event(f)
    \/ process_queues_end
    \/ cl4_prof_calc_agg
    \/ cl4_prof_calc_overmat
    \/ \E o \in ExportOptionsChoices : cl4_prof_set_export_opts(o)
    \/ \E prof \in {"prof", "NULL"}, strm \in {"stream", "NULL"},
          wfail \in 0 .. Len(events) : cl4_prof_export_info(prof, strm, wfail)
    \/ \E prof \in {"prof", "NULL"}, open_ok \in BOOLEAN,
          wfail \in 0 .. Len(events) :
            cl4_prof_export_info_file(prof, open_ok, wfail)

SpecExport == InitExport /\ [][NextExport]_vars

\* Reporting: the same queues, the timer, calculate, the aggregate lookup
\* and the printed report before and after calculate, and the destruction
\* of the profile.
InitReport ==
    /\ cl4_prof_new
    /\ io_init
    /\ qevents \in Scenarios

NextReport ==
    \/ cl4_prof_add_queue("p1", "cq1")
    \/ cl4_prof_add_queue("p3", "cq2")
    \/ cl4_prof_calc_begin
    \/ process_queues_next_queue
    \/ \E f \in {"none", "SUBMIT"} : process_queues_add_event(f)
    \/ process_queues_end
    \/ cl4_prof_calc_agg
    \/ cl4_prof_calc_overmat
    \/ \E n \in {NameA, NameK} : cl4_prof_get_eventagg(n)
    \/ \E prof \in {"prof", "NULL"}, srt \in {"SORT_NAME", "SORT_TIME"} :
          cl4_prof_print_info(prof, srt)
    \/ cl4_prof_start
    \/ cl4_prof_destroy

SpecReport == InitReport /\ [][NextReport]_vars

\* Reporting and export on one profile: the queues, a calculate whose
\* queries all succeed, then the printed report and the stream export with
\* the default options, in any order and any number of times.
InitReadOnly ==
    /\ cl4_prof_new
    /\ io_init
    /\ qevents \in Scenarios

NextReadOnly ==
    \/ cl4_prof_add_queue("p1", "cq1")
    \/ cl4_prof_add_queue("p3", "cq2")
    \/ cl4_prof_calc_begin
    \/ process_queues_next_queue
    \/ process_queues_add_event("none")
    \/ process_queues_end
    \/ cl4_prof_calc_agg
    \/ cl4_prof_calc_overmat
    \/ \E srt \in {"SORT_NAME", "SORT_TIME"} : cl4_prof_print_info("prof", srt)
    \/ \E wfail \in 0 .. Len(events) :
          cl4_prof_export_info("prof", "stream", wfail)

SpecReadOnly == InitReadOnly /\ [][NextReadOnly]_vars

\* The queue registry: the caller registers its two live wrappers under
\* any of the names, again under the same name too, and gives up its own
\* references when it likes; no calculate.
InitQueues ==
    /\ cl4_prof_new
    /\ io_init
    /\ qevents = NoEvents

NextQueues ==
    \/ \E cq_name \in QNamePtrs, cq \in CQs \ destroyed :
          cl4_prof_add_queue(cq_name, cq)
    \/ \E cq \in CQs : caller_cqueue_destroy(cq)

SpecQueues == InitQueues /\ [][NextQueues]_vars

\* The export options under concurrent calls: every setter thread calls
\* cl4_prof_set_export_opts once with a record of its choice while the
\* getter thread calls cl4_prof_get_export_opts once.
InitOpts ==
    /\ cl4_prof_new
    /\ io_init
    /\ qevents = NoEvents

NextOpts ==
    \/ \E t \in Setters, o \in ExportOptionsChoices : set_export_opts_lock(t, o)
    \/ \E t \in Setters, f \in OptFields : set_export_opts_copy(t, f)
    \/ \E t \in Setters : set_export_opts_unlock(t)
    \/ \E f \in OptFields : get_export_opts_copy(f)
    \/ get_export_opts_return

SpecOpts == InitOpts /\ [][NextOpts]_vars

(***************************************************************************)
(* Properties.                                                             *)
(***************************************************************************)
\* The events handed to the ingest, in ingest order.
Ingested == [k \in 1 .. Len(ingest_log) |-> ingest_log[k].evt]

\* The events of the registered queues, one per table entry and position.
RegisteredEvents ==
    UNION {{<<e, i>> : i \in 1 .. Len(qevents[e.value])} : e \in cqueues}

NumNames == Cardinality(DOMAIN event_names)

\* Length of the intersection of the intervals of two events.
PairOverlap(e, f) ==
    Max2(0, Min2(e.t_end, f.t_end) - Max2(e.t_start, f.t_start))

\* The unordered pairs of distinct ingested events with name ids i and j.
EventPairs(i, j) ==
    {pq \in (1 .. Len(ingest_log)) \X (1 .. Len(ingest_log)) :
        /\ pq[1] < pq[2]
        /\ {event_names[Ingested[pq[1]].name],
            event_names[Ingested[pq[2]].name]} = {i, j}}

ExpectedOverlap(i, j) ==
    SumOver(EventPairs(i, j),
            [pq \in EventPairs(i, j) |->
                PairOverlap(Ingested[pq[1]], Ingested[pq[2]])])

\* C1: after a successful calculate, every entry (i, j), i <= j, of the
\* overlap matrix is the sum of the interval intersections of the pairs of
\* distinct ingested events with name ids i and j.
C1_OverlapMatrixIsPairSum ==
    pc = "done" =>
        \A i \in 0 .. (NumNames - 1), j \in 0 .. (NumNames - 1) :
            i <= j => overmat[i * NumNames + j] = ExpectedOverlap(i, j)

PairwiseDisjoint ==
    \A p \in 1 .. Len(ingest_log), q \in 1 .. Len(ingest_log) :
        p < q => \/ Ingested[p].t_end < Ingested[q].t_start
                 \/ Ingested[q].t_end < Ingested[p].t_start

\* C2: when the ingested events have pairwise disjoint intervals, calculate
\* runs to its end, every matrix entry is 0 and the effective time is the
\* total time.
C2_DisjointEventsNoOverlap ==
    ( /\ pc \in {"done", "crashed"}
      /\ "event_name_ids" \in nonnull
      /\ PairwiseDisjoint )
    => /\ pc = "done"
       /\ \A c \in DOMAIN overmat : overmat[c] = 0
       /\ total_events_eff_time = total_events_time

\* C3: after a successful calculate the effective time plus the total
\* overlap is the total time, as integers and with neither term negative:
\* the subtraction did not wrap.
C3_EffTimeNoWrap ==
    pc = "done" =>
        /\ total_events_eff_time + total_overlap = total_events_time
        /\ total_events_eff_time >= 0
        /\ total_overlap >= 0

\* A successful calculate over at least four events that all overlap one
\* another.
C3_Witness ==
    /\ pc = "done"
    /\ Len(ingest_log) >= 4
    /\ total_events_time > 0
    /\ \A p \in 1 .. Len(ingest_log), q \in 1 .. Len(ingest_log) :
          p < q => PairOverlap(Ingested[p], Ingested[q]) > 0

\* C4: a step of the ingest in which a profiling-info query fails leaves
\* num_events, the instants, the events, the name table and start_time as
\* they were before the event was processed.
C4_FailedEventNotCommitted ==
    [][ (pc = "ingest" /\ pc' = "failed")
        => UNCHANGED <<num_events, event_instants, events, event_names,
                       start_time>> ]_vars

\* The sum of t_end - t_start over the registered queues' events named n.
ExpectedAbsoluteTime(n) ==
    LET S == {x \in RegisteredEvents : qevents[x[1].value][x[2]].name = n}
    IN  SumOver(S, [x \in S |-> qevents[x[1].value][x[2]].t_end
                                - qevents[x[1].value][x[2]].t_start])

\* C5: after a successful calculate, the aggregate table has one entry per
\* name of the registered queues' events, whose absolute_time is the sum of
\* t_end - t_start over the events of that name, whatever the order of the
\* ingest was.
C5_AggregateIsSumOfDurations ==
    pc = "done" =>
        /\ DOMAIN aggregate =
              {qevents[x[1].value][x[2]].name : x \in RegisteredEvents}
        /\ \A n \in DOMAIN aggregate :
              aggregate[n].absolute_time = ExpectedAbsoluteTime(n)

\* A successful calculate over two queues, in which the queue registered as
\* "q1" was ingested before the one registered as "q0" and gave the name
\* ids in that order.
C5_Witness ==
    /\ pc = "done"
    /\ Len(ingest_log) >= 2
    /\ ingest_log[1].cq_name = "p3"
    /\ ingest_log[Len(ingest_log)].cq_name = "p1"
    /\ Cardinality(DOMAIN aggregate) >= 2
    /\ \A n \in DOMAIN aggregate : aggregate[n].absolute_time > 0

\* C6: once the aggregation has run, the absolute times of the aggregate
\* entries add up to total_events_time.
C6_AggregateSumIsTotal ==
    pc \in {"overmat", "done"} =>
        SumOver(DOMAIN aggregate,
                [n \in DOMAIN aggregate |-> aggregate[n].absolute_time])
        = total_events_time

\* The aggregation has run over events of two names, each with a positive
\* total.
C6_Witness ==
    /\ pc = "overmat"
    /\ Cardinality(DOMAIN aggregate) = 2
    /\ Len(ingest_log) >= 2
    /\ \A n \in DOMAIN aggregate : aggregate[n].absolute_time > 0

\* The positions of the instants of event id k and the given type.
InstantsOf(k, type) ==
    {i \in 1 .. Len(event_instants) :
        event_instants[i].id = k /\ event_instants[i].type = type}

\* C7: after a successful calculate the ids are 1..num_events in ingest
\* order, there are num_events event records and 2*num_events instants,
\* and every id has exactly one START instant, at the event's t_start, and
\* exactly one END instant, at its t_end.
C7_InstantsPairUp ==
    pc = "done" =>
        /\ num_events = Len(ingest_log)
        /\ Len(events) = num_events
        /\ Len(event_instants) = 2 * num_events
        /\ \A i \in 1 .. Len(event_instants) :
              event_instants[i].id \in 1 .. num_events
        /\ \A k \in 1 .. Len(ingest_log) :
              /\ Cardinality(InstantsOf(k, "START")) = 1
              /\ Cardinality(InstantsOf(k, "END")) = 1
              /\ \A i \in InstantsOf(k, "START") :
                    event_instants[i].instant = Ingested[k].t_start
              /\ \A i \in InstantsOf(k, "END") :
                    event_instants[i].instant = Ingested[k].t_end

\* A successful calculate over three events of two queues.
C7_Witness ==
    /\ pc = "done"
    /\ num_events = 3
    /\ Cardinality({ingest_log[k].cq_name : k \in 1 .. Len(ingest_log)}) = 2

\* C8: a calculate call on a profile on which calculate was called before
\* is rejected and changes none of the event list, the instant list, the
\* aggregates, the overlap matrix and the totals.
C8_SecondCalcRejected ==
    [][ (pc \in {"done", "failed"} /\ last'.op = "calc" /\ last' # last)
        => /\ last'.status = "rejected"
           /\ pc' = pc
           /\ UNCHANGED <<events, event_instants, aggregate, overmat,
                          total_events_time, total_events_eff_time>> ]_vars

\* A calculate call was rejected on a profile whose first calculate gave
\* aggregates.
C8_Witness ==
    /\ pc = "done"
    /\ last.op = "calc"
    /\ last.status = "rejected"
    /\ DOMAIN aggregate # {}

\* C9: an add_queue call (with a queue, not NULL) made after calculate was
\* called is rejected and leaves the queue table and the reference counts
\* as they were.
C9_AddQueueAfterCalcRejected ==
    [][ ( /\ pc \in {"done", "failed"}
          /\ last'.op = "add_queue"
          /\ last' # last )
        => /\ last'.status = "rejected"
           /\ UNCHANGED <<cqueues, refcnt>> ]_vars

\* An add_queue call with a queue was rejected after a calculate.
C9_Witness ==
    /\ pc = "done"
    /\ last.op = "add_queue"
    /\ last.status = "rejected"
    /\ last.arg[2] \in CQs

\* C10: the queue table never holds two entries whose names are equal as
\* strings, and every queue has one reference per table entry besides the
\* caller's.
C10_OneQueuePerName ==
    /\ \A e1 \in cqueues, e2 \in cqueues :
          StrAt(e1.key) = StrAt(e2.key) => e1 = e2
    /\ \A q \in CQs :
          refcnt[q] = 1 + Cardinality({e \in cqueues : e.value = q})

\* C11: a step of the ingest in which a profiling-info query fails ends
\* calculate with the error; in the state it leaves there are no aggregate
\* entries, no overlap matrix and zero totals, and every later calculate or
\* add_queue call is rejected.
C11_IngestFailureIsFatal ==
    /\ [][ ( /\ pc = "ingest"
             /\ Len(ingest_log') = Len(ingest_log) + 1
             /\ ingest_log'[Len(ingest_log')].fail # "none" )
           => /\ pc' = "failed"
              /\ last' = [op |-> "calc", arg |-> <<>>, status |-> "error"] ]_vars
    /\ [](pc = "failed" =>
            /\ aggregate = EmptyTable
            /\ overmat = EmptyTable
            /\ "overmat" \notin nonnull
            /\ "event_name_ids" \notin nonnull
            /\ total_events_time = 0
            /\ total_events_eff_time = 0)
    /\ [][ (pc = "failed" /\ last' # last)
           => /\ last'.op \in {"calc", "add_queue"}
              /\ last'.status = "rejected"
              /\ UNCHANGED <<prof_vars, pc>> ]_vars

\* After a calculate whose ingest failed on the second event of a queue, a
\* call was rejected.
C11_Witness ==
    /\ pc = "failed"
    /\ Len(ingest_log) >= 2
    /\ last.status = "rejected"

\* The fields of a written line: the pieces between occurrences of the
\* separator character c.
RECURSIVE SplitAt(_, _)
SplitAt(line, c) ==
    IF line = <<>> THEN << <<>> >>
    ELSE LET r == SplitAt(Tail(line), c)
         IN  IF Head(line) = c THEN << <<>> >> \o r
             ELSE << <<Head(line)>> \o Head(r) >> \o Tail(r)

\* The number a string of decimal digits denotes.
RECURSIVE parse_lu(_)
parse_lu(ds) ==
    IF ds = <<>> THEN 0
    ELSE parse_lu(SubSeq(ds, 1, Len(ds) - 1)) * 10 + (ds[Len(ds)] - 48)

\* The start and end times read back from a line of the stream.
LineTStart(line) == parse_lu(SplitAt(line, Head(export_options.separator))[2])
LineTEnd(line) == parse_lu(SplitAt(line, Head(export_options.separator))[3])

\* C12: a successful cl4_prof_export_info has written one line per event
\* record, and the start times of the lines never decrease from one line to
\* the next.
C12_ExportAscendingByStart ==
    (last.op = "export_info" /\ last.status = "ok") =>
        /\ Len(stream) = Len(events)
        /\ \A k \in 1 .. (Len(stream) - 1) :
              LineTStart(stream[k]) <= LineTStart(stream[k + 1])

\* C13: the start and end times on the line of every event record are the
\* record's times minus prof->start_time when the zero_start option is set,
\* and the record's times themselves when it is not.
C13_ZeroStartShiftsTimes ==
    (last.op = "export_info" /\ last.status = "ok") =>
        \A k \in 1 .. Len(stream) :
            /\ LineTStart(stream[k]) =
                  IF export_options.zero_start
                  THEN USub(events[k].t_start, start_time)
                  ELSE events[k].t_start
            /\ LineTEnd(stream[k]) =
                  IF export_options.zero_start
                  THEN USub(events[k].t_end, start_time)
                  ELSE events[k].t_end

\* C14: the record a cl4_prof_get_export_opts call returns is the initial
\* record or the argument of one of the cl4_prof_set_export_opts calls that
\* were made.
C14_GetReturnsWholeRecord ==
    thr_pc[Getter] = "done" =>
        \/ get_ret = DefaultExportOptions
        \/ \E t \in Setters : thr_pc[t] # "start" /\ get_ret = thr_arg[t]

\* C15: cl4_prof_destroy leaves none of the profile's event records, event
\* instants, aggregate entries, tables, overlap matrix and timers
\* allocated, and takes from every queue one reference per entry the queue
\* table had for it.
C15_DestroyReleasesEverything ==
    [][ (pc # "destroyed" /\ pc' = "destroyed")
        => /\ events' = <<>>
           /\ event_instants' = <<>>
           /\ aggregate' = EmptyTable
           /\ event_names' = EmptyTable
           /\ event_name_ids' = EmptyTable
           /\ overmat' = EmptyTable
           /\ timers' = 0
           /\ cqueues' = {}
           /\ \A q \in CQs :
                 refcnt'[q] = refcnt[q]
                              - Cardinality({e \in cqueues : e.value = q}) ]_vars

\* C16: on a profile on which calculate was not called, a
\* cl4_prof_get_eventagg call is rejected and returns no entry, and a
\* cl4_prof_print_info call is rejected and prints nothing.
C16_ReportingBeforeCalcRejected ==
    pc = "idle" =>
        /\ last.op = "get_eventagg" =>
              (last.status = "rejected" /\ ret_eventagg.entry = {})
        /\ last.op = "print_info" =>
              (last.status = "rejected" /\ printed = <<>>)

\* The double a relative_time holds: the quotient num / den of a division
\* by a non-zero number, or the NaN that 0.0 / 0.0 gives.
IsNaN(r) == r.den = 0 /\ r.num = 0
IsQuotient(r, a, b) == r.den # 0 /\ b # 0 /\ r.num * b = a * r.den

\* C17: once the aggregation has run, the relative_time of every aggregate
\* entry is absolute_time / total_events_time, and is 0 when
\* total_events_time is 0.
C17_RelativeTimeIsShare ==
    pc \in {"overmat", "done"} =>
        \A n \in DOMAIN aggregate :
            IF total_events_time = 0
            THEN IsQuotient(aggregate[n].relative_time, 0, 1)
            ELSE IsQuotient(aggregate[n].relative_time,
                            aggregate[n].absolute_time, total_events_time)

\* C18: when an fprintf of cl4_prof_export_info fails, the stream holds the
\* lines of the records before that one and nothing after them, the call
\* returns failure, and the error it reports is the stream-write error.
C18_WriteFailureAbortsExport ==
    (last.op = "export_info" /\ write_failed > 0) =>
        /\ last.status = "error"
        /\ export_err = "CL4_ERROR_STREAM_WRITE"
        /\ Len(stream) = write_failed - 1
        /\ \A k \in 1 .. Len(stream) :
              stream[k] = export_line(events[k], export_options)

\* An export of three records in which the second write failed.
C18_Witness ==
    /\ last.op = "export_info"
    /\ write_failed = 2
    /\ Len(events) = 3
    /\ Len(stream) = 1

\* C19: cl4_prof_export_info_file on a path that cannot be opened returns
\* failure with the open-file error and exports nothing; on an opened file it
\* closes the handle exactly once, and it returns failure whenever the stream
\* export it delegated to returned failure.
C19_ExportFileClosesAndPropagates ==
    last.op = "export_info_file" =>
        /\ ~fp.opened => /\ last.status = "error"
                         /\ export_err = "CL4_ERROR_OPENFILE"
                         /\ ~fp.exported
                         /\ fp.closes = 0
        /\ fp.opened => fp.closes = 1
        /\ (fp.exported /\ fp.status # "ok") => last.status = "error"

\* The names of the ingested events and, for each, the position of its
\* first event in the ingest order and the number of names seen before it.
SeenNames == {Ingested[k].name : k \in 1 .. Len(Ingested)}

FirstSeen(n) ==
    CHOOSE k \in 1 .. Len(Ingested) :
        /\ Ingested[k].name = n
        /\ \A j \in 1 .. k - 1 : Ingested[j].name # n

SeenBefore(n) == Cardinality({m \in SeenNames : FirstSeen(m) < FirstSeen(n)})

\* C20: after a successful ingest the event-name table gives the N distinct
\* names the ids 0..N-1 in the order the names were first seen, without gaps
\* or duplicates; a name already in the table keeps its id when it is seen
\* again; and the reverse table maps the id of every name back to that name.
C20_InternerIsDenseBijection ==
    /\ []("event_name_ids" \in nonnull =>
            /\ DOMAIN event_names = SeenNames
            /\ \A n \in SeenNames : event_names[n] = SeenBefore(n)
            /\ {event_names[n] : n \in SeenNames} = 0 .. NumNames - 1
            /\ DOMAIN event_name_ids = 0 .. NumNames - 1
            /\ \A n \in SeenNames : event_name_ids[event_names[n]] = n)
    /\ [][\A n \in DOMAIN event_names \cap DOMAIN event_names' :
             event_names'[n] = event_names[n]]_vars

\* A finished ingest of two names in which the name seen first came again
\* after the second name.
C20_Witness ==
    /\ "event_name_ids" \in nonnull
    /\ NumNames = 2
    /\ \E i, j, k \in 1 .. Len(Ingested) :
          /\ i < j /\ j < k
          /\ Ingested[i].name = Ingested[k].name
          /\ Ingested[j].name # Ingested[i].name

\* C21: after a successful calculate the overlap matrix has N * N entries, N
\* the number of distinct event names, and every entry below the diagonal
\* (row i > column j) is 0.
C21_OverlapMatrixLowerTriangleZero ==
    pc = "done" =>
        /\ DOMAIN overmat = 0 .. (NumNames * NumNames - 1)
        /\ \A i \in 0 .. (NumNames - 1), j \in 0 .. (NumNames - 1) :
              i > j => overmat[i * NumNames + j] = 0

\* A successful calculate over events of two names, so that the matrix has
\* an entry below the diagonal.
C21_Witness ==
    /\ pc = "done"
    /\ NumNames = 2
    /\ Len(ingest_log) >= 3
    /\ DOMAIN overmat = 0 .. 3

\* The aggregate rows of the last printed report, in the order printed.
AggRows == SelectSeq(printed, LAMBDA l : l.kind = "agg")

\* s comes strictly before t in lexicographic order of the character codes.
RECURSIVE LexLess(_, _)
LexLess(s, t) ==
    IF t = <<>> THEN FALSE
    ELSE IF s = <<>> THEN TRUE
    ELSE IF Head(s) # Head(t) THEN Head(s) < Head(t)
    ELSE LexLess(Tail(s), Tail(t))

\* C22: a report printed on a calculated profile has one row per aggregate
\* entry; with the sort key TIME the rows come in non-increasing order of
\* absolute time, with the sort key NAME in ascending lexicographic order of
\* the event names.
C22_PrintInfoSortOrder ==
    (last.op = "print_info" /\ last.arg[1] # "NULL"
        /\ "aggregate" \in nonnull) =>
        /\ {AggRows[k].name1 : k \in 1 .. Len(AggRows)} = DOMAIN aggregate
        /\ Len(AggRows) = Cardinality(DOMAIN aggregate)
        /\ \A k \in 1 .. Len(AggRows) :
              AggRows[k].value = aggregate[AggRows[k].name1].absolute_time
        /\ last.arg[2] = "SORT_TIME" =>
              \A i, j \in 1 .. Len(AggRows) :
                  i < j => AggRows[i].value >= AggRows[j].value
        /\ last.arg[2] = "SORT_NAME" =>
              \A i, j \in 1 .. Len(AggRows) :
                  i < j => LexLess(AggRows[i].name1, AggRows[j].name1)

\* A report sorted by time whose two rows have different times and come in
\* the opposite of the name order.
C22_Witness ==
    /\ last.op = "print_info"
    /\ last.arg = <<"prof", "SORT_TIME">>
    /\ pc = "done"
    /\ Len(AggRows) = 2
    /\ AggRows[1].value > AggRows[2].value
    /\ LexLess(AggRows[2].name1, AggRows[1].name1)

\* How many times the record e is in the list l.
CountIn(l, e) == Cardinality({k \in 1 .. Len(l) : l[k] = e})

\* C23: after a successful calculate, a step of cl4_prof_print_info or of
\* cl4_prof_export_info leaves the aggregate entries, the overlap matrix,
\* total_events_time, total_events_eff_time and start_time as they were,
\* and the event list holds the same records as before, each as often.
C23_ReportingIsReadOnly ==
    [][(pc = "done" /\ last'.op \in {"print_info", "export_info"}) =>
          /\ aggregate' = aggregate
          /\ overmat' = overmat
          /\ total_events_time' = total_events_time
          /\ total_events_eff_time' = total_events_eff_time
          /\ start_time' = start_time
          /\ Len(events') = Len(events)
          /\ \A k \in 1 .. Len(events) :
                CountIn(events', events[k]) = CountIn(events, events[k])
          /\ pc' = "done"]_vars

\* After a successful calculate a report was printed and then an export
\* wrote two or more lines, and the export left the event list in another
\* order than the ingest had built.
C23_Witness ==
    /\ pc = "done"
    /\ last.op = "export_info"
    /\ last.status = "ok"
    /\ Len(stream) >= 2
    /\ printed # <<>>
    /\ \E k \in 1 .. Len(events) :
          events[k].t_start # Ingested[Len(events) + 1 - k].t_start

\* d is the decimal numeral of n: digits only, no leading zero.
IsDecimal(d, n) ==
    /\ Len(d) >= 1
    /\ \A k \in 1 .. Len(d) : d[k] \in 48 .. 57
    /\ Len(d) > 1 => d[1] # 48
    /\ parse_lu(d) = n

\* The line without its last n characters, and those characters.
DropLast(line, n) == SubSeq(line, 1, Len(line) - n)
TakeLast(line, n) == SubSeq(line, Len(line) - n + 1, Len(line))

\* C24: every line cl4_prof_export_info wrote is, under the export options
\* in force, queue_delim, the queue name, queue_delim, separator, t_start,
\* separator, t_end, separator, evname_delim, the event name, evname_delim,
\* newline; with the default options that is the queue name, a tab,
\* t_start, a tab, t_end, a tab, the event name and a line feed.
C24_ExportLineFormat ==
    last.op = "export_info" =>
        \A k \in 1 .. Len(stream) :
            LET o == export_options
                ev == events[k]
                line == stream[k]
                f == SplitAt(DropLast(line, Len(o.newline)), Head(o.separator))
            IN  /\ Len(line) >= Len(o.newline)
                /\ TakeLast(line, Len(o.newline)) = o.newline
                /\ Len(f) = 4
                /\ f[1] = o.queue_delim \o StrAt(ev.queue_name) \o o.queue_delim
                /\ IsDecimal(f[2], ev.t_start)
                /\ IsDecimal(f[3], ev.t_end)
                /\ f[4] = o.evname_delim \o ev.event_name \o o.evname_delim
                /\ o = DefaultExportOptions =>
                      line = StrAt(ev.queue_name) \o <<9>> \o f[2] \o <<9>>
                             \o f[3] \o <<9>> \o ev.event_name \o <<10>>

\* An export under options with both delimiters set wrote the line of an
\* event whose instants have three and four decimal digits.
C24_Witness ==
    /\ last.op = "export_info"
    /\ export_options.queue_delim = <<34>>
    /\ export_options.evname_delim = <<39>>
    /\ \E k \in 1 .. Len(stream) :
          /\ events[k].t_start = 1100
          /\ events[k].t_end = 1200
          /\ stream[k] = <<34, 113, 49, 34, 59, 49, 49, 48, 48, 59,
                           49, 50, 48, 48, 59, 39, 107, 39, 10>>

\* C25: the list of event instants the overlap pass of cl4_prof_calc_overmat
\* walks from its head is in non-decreasing order of the instant values.
C25_SweepAscendingByInstant ==
    [][pc = "overmat" =>
          \A i, j \in 1 .. Len(event_instants') :
              i < j => event_instants'[i].instant <= event_instants'[j].instant]_vars

\* C26: in the sweep of cl4_prof_calc_overmat every END instant finds, for
\* each event still in the occurring set, the pair-start entry keyed by the
\* smaller and the larger of the two event ids: no lookup misses, so the
\* sweep runs to its end for every set of events with t_start <= t_end.
C26_PairStartLookupNeverMisses ==
    [][pc = "overmat" =>
          /\ ~calc_overmat_result(event_names, event_instants,
                                  total_events_time).crashed
          /\ pc' = "done"]_vars

\* C27: in the list the sweep walks, a START instant and an END instant with
\* the same instant value, of one event or of two, come with the START
\* first.
C27_StartBeforeEndOnTies ==
    [][pc = "overmat" =>
          \A i, j \in 1 .. Len(event_instants') :
              ( /\ i < j
                /\ event_instants'[i].instant = event_instants'[j].instant
                /\ event_instants'[i].type # event_instants'[j].type )
              => event_instants'[i].type = "START"]_vars

\* C28: before calculate, whatever add_queue calls were made, every queue
\* wrapper the registry holds has a reference count of at least 1 and has
\* not been destroyed, also after a queue was registered again under the
\* name it already had while the reference of the profile was the only one.
C28_RegisteredQueueStaysAlive ==
    "aggregate" \notin nonnull =>
        \A e \in cqueues : refcnt[e.value] >= 1 /\ e.value \notin destroyed

====
